---- MODULE Spec2Model ----
(***************************************************************************)
(* Model of ddtrace/contrib/elasticsearch/patch.py: the patch controller   *)
(* (patch / unpatch), the 8.x URL parameter parser and the request         *)
(* interceptor (_perform_request).                                         *)
(*                                                                         *)
(* Strings are sequences of one-character strings, so that splitting,      *)
(* percent-decoding and percent-encoding are computed character by         *)
(* character as the Python code and the standard library compute them.     *)
(***************************************************************************)
EXTENDS Naturals, Sequences, FiniteSets

VARIABLES
    installed,      \* the client modules import_module finds (_es_modules)
    elastic_transport, \* what "import elastic_transport" finds: "ok" |
                    \* "missing" (ImportError) | "bare" (a module without
                    \* _transport.Transport)
    datadog_patch,  \* the _datadog_patch attribute of each client module
    wrapped,        \* per transport module: the wrappers around
                    \* Transport.perform_request, outermost first
    pinned,         \* transport modules whose Transport class carries a Pin
    calls,          \* history: the latest calls of patch() and unpatch()
    workers,        \* the threads of the host application that issue calls
    pc,             \* per thread: "idle" | "call" | "ret" | "done"
    req,            \* per thread: the call made (arguments, instance) and
                    \* what the original method does when invoked
    chain,          \* per thread: the wrappers still to enter
    passed,         \* per thread: what is handed to the next callee
    stack,          \* per thread: the wrapper invocations in progress
    spans,          \* per thread: the spans the call has opened
    orig,           \* per thread: what the original method received, once
                    \* per invocation
    flight,         \* per thread: the result or exception on its way back
    purl,           \* parser harness: the URL handed to the parser
    pstep,          \* parser harness: "input" | "parsed" | "encoded"
    pres,           \* parser harness: what the parser did
    penc            \* parser harness: urlencode of the parsed mapping

patchvars == <<installed, elastic_transport, datadog_patch, wrapped, pinned, calls>>

callvars == <<workers, pc, req, chain, passed, stack, spans, orig, flight>>

pvars == <<purl, pstep, pres, penc>>

vars == <<installed, elastic_transport, datadog_patch, wrapped, pinned, calls, workers, pc, req, chain,
          passed, stack, spans, orig, flight, purl, pstep, pres, penc>>

(***************************************************************************)
(* Bounds                                                                  *)
(***************************************************************************)
\* Longest query string the parser harness enumerates exhaustively.
MaxQueryLen == 5

\* How many of the latest patch() / unpatch() calls the history keeps.
MaxCalls == 2

\* F(e), with e evaluated once and then named: LET y == e IN F(y).
Let(e, F(_)) == CHOOSE r \in {F(y) : y \in {e}} : TRUE

(***************************************************************************)
(* Strings                                                                 *)
(***************************************************************************)
\* The replacement character U+FFFD, one character.
ReplacementChar == "U+FFFD"

HexDigits ==
    {"0", "1", "2", "3", "4", "5", "6", "7", "8", "9",
     "a", "b", "c", "d", "e", "f", "A", "B", "C", "D", "E", "F"}

\* Characters quote_plus leaves alone: letters, digits and "_.-~".
Unreserved ==
    {"a", "b", "c", "d", "e", "f", "g", "h", "i", "j", "k", "l", "m", "n",
     "o", "p", "q", "r", "s", "t", "u", "v", "w", "x", "y", "z",
     "A", "B", "C", "D", "E", "F",
     "0", "1", "2", "3", "4", "5", "6", "7", "8", "9", "_", ".", "-", "~"}

\* str.split(sep): the pieces between the separators, empty pieces kept;
\* "".split(sep) is [""].
RECURSIVE SplitAcc(_, _, _, _)
SplitAcc(s, sep, piece, acc) ==
    IF s = <<>> THEN Append(acc, piece)
    ELSE IF Head(s) = sep THEN SplitAcc(Tail(s), sep, <<>>, Append(acc, piece))
    ELSE SplitAcc(Tail(s), sep, Append(piece, Head(s)), acc)

split(s, sep) == SplitAcc(s, sep, <<>>, <<>>)

\* sep.join(pieces)
RECURSIVE join(_, _)
join(pieces, sep) ==
    IF pieces = <<>> THEN <<>>
    ELSE IF Len(pieces) = 1 THEN pieces[1]
    ELSE pieces[1] \o <<sep>> \o join(Tail(pieces), sep)

\* Index of the first occurrence of c in s, 0 when there is none.
RECURSIVE FindFrom(_, _, _)
FindFrom(s, c, i) ==
    IF i > Len(s) THEN 0
    ELSE IF s[i] = c THEN i
    ELSE FindFrom(s, c, i + 1)

find(s, c) == FindFrom(s, c, 1)

\* The character a percent-escape %h1h2 stands for (UTF-8, errors="replace":
\* a lone byte >= 0x80 decodes to U+FFFD).
HexChar(h1, h2) ==
    CASE <<h1, h2>> = <<"3", "A">> -> ":"
      [] <<h1, h2>> = <<"3", "a">> -> ":"
      [] <<h1, h2>> = <<"3", "3">> -> "3"
      [] <<h1, h2>> = <<"3", "D">> -> "="
      [] <<h1, h2>> = <<"2", "5">> -> "%"
      [] <<h1, h2>> = <<"2", "6">> -> "&"
      [] OTHER -> ReplacementChar

\* urllib.parse.unquote: every %XX with two hex digits is replaced by the
\* character it encodes; any other "%" is kept as it is.
RECURSIVE urldecode(_)
urldecode(s) ==
    IF s = <<>> THEN <<>>
    ELSE IF Head(s) = "%" /\ Len(s) >= 3 /\ s[2] \in HexDigits /\ s[3] \in HexDigits
         THEN <<HexChar(s[2], s[3])>> \o urldecode(SubSeq(s, 4, Len(s)))
    ELSE <<Head(s)>> \o urldecode(Tail(s))

\* quote_plus of one character.
QuoteChar(c) ==
    CASE c \in Unreserved -> <<c>>
      [] c = " " -> <<"+">>
      [] c = ":" -> <<"%", "3", "A">>
      [] c = "=" -> <<"%", "3", "D">>
      [] c = "%" -> <<"%", "2", "5">>
      [] c = "&" -> <<"%", "2", "6">>
      [] c = "/" -> <<"%", "2", "F">>
      [] c = "?" -> <<"%", "3", "F">>
      [] c = ReplacementChar -> <<"%", "E", "F", "%", "B", "F", "%", "B", "D">>

RECURSIVE quote_plus(_)
quote_plus(s) ==
    IF s = <<>> THEN <<>> ELSE QuoteChar(Head(s)) \o quote_plus(Tail(s))

(***************************************************************************)
(* Mappings (Python dict): a sequence of <<key, value>> pairs with         *)
(* distinct keys, in insertion order.                                      *)
(***************************************************************************)
EmptyDict == <<>>

Keys(d) == {d[i][1] : i \in 1..Len(d)}

\* d[k] = v
DictSet(d, k, v) ==
    IF k \in Keys(d)
    THEN [i \in 1..Len(d) |-> IF d[i][1] = k THEN <<k, v>> ELSE d[i]]
    ELSE Append(d, <<k, v>>)

\* urllib.parse.urlencode(params): key=value pairs joined by "&", keys and
\* values quoted with quote_plus.
urlencode(params) ==
    join([i \in 1..Len(params) |->
            quote_plus(params[i][1]) \o <<"=">> \o quote_plus(params[i][2])],
         "&")

\* urllib.parse.urlparse(url), for a URL without scheme and host: the
\* fragment is what follows the first "#", the query what follows the first
\* "?" before it, the path the rest.
urlparse(url) ==
    LET h == find(url, "#")
        nofrag == IF h = 0 THEN url ELSE SubSeq(url, 1, h - 1)
        q == find(nofrag, "?")
    IN  [path  |-> IF q = 0 THEN nofrag ELSE SubSeq(nofrag, 1, q - 1),
         query |-> IF q = 0 THEN <<>> ELSE SubSeq(nofrag, q + 1, Len(nofrag))]

(***************************************************************************)
(* _parse_elasticsearch8_urlparams                                         *)
(***************************************************************************)
\* The body of "for param in params_list": the first parameter that raises
\* ends the loop.  kv = param.split("="):
\*   len(kv) > 1:  "k, v = kv" raises ValueError unless len(kv) = 2;
\*                 params[k] = urldecode(v) when k is not empty;
\*   len(kv) = 1:  k = kv is the list itself, and params[k] = "" raises
\*                 TypeError (a list is unhashable).
RECURSIVE ParseParamsLoop(_, _)
ParseParamsLoop(params_list, params) ==
    IF params_list = <<>> THEN [exc |-> "none", params |-> params]
    ELSE Let(split(Head(params_list), "="), LAMBDA kv :
             IF Len(kv) > 1
             THEN IF Len(kv) # 2
                  THEN [exc |-> "ValueError", params |-> params]
                  ELSE ParseParamsLoop(Tail(params_list),
                          IF kv[1] # <<>>
                          THEN DictSet(params, kv[1], urldecode(kv[2]))
                          ELSE params)
             ELSE [exc |-> "TypeError", params |-> params])

\* [exc, url, params]: the path and the mapping returned, or the exception
\* raised.
_parse_elasticsearch8_urlparams(url) ==
    Let(urlparse(url), LAMBDA parsed_url :
        IF parsed_url.query # <<>>
        THEN Let(ParseParamsLoop(split(parsed_url.query, "&"), EmptyDict),
                 LAMBDA loop : [exc |-> loop.exc, url |-> parsed_url.path,
                                params |-> loop.params])
        ELSE [exc |-> "none", url |-> parsed_url.path, params |-> EmptyDict])

(***************************************************************************)
(* Python values whose type is only known at run time: the params and body *)
(* keyword arguments, the result of the original call and its "took".      *)
(***************************************************************************)
PyNone == [py |-> "None"]

PyInt(n) == [py |-> "int", n |-> n]

PyStr(s) == [py |-> "str", s |-> s]

PyBool(b) == [py |-> "bool", b |-> b]

PyDict(items) == [py |-> "dict", items |-> items]

PyTuple(elems) == [py |-> "tuple", elems |-> elems]

\* A request body: a document the client serializer can or cannot dump.
PyDoc(id) == [py |-> "doc", id |-> id]

\* bool(x)
Truthy(x) ==
    CASE x.py = "None" -> FALSE
      [] x.py = "int" -> x.n # 0
      [] x.py = "str" -> x.s # <<>>
      [] x.py = "bool" -> x.b
      [] x.py = "dict" -> x.items # <<>>
      [] x.py = "tuple" -> x.elems # <<>>
      [] OTHER -> TRUE

\* d.get(k) of a dict
dict_get(d, k) ==
    IF \E i \in 1..Len(d.items) : d.items[i][1] = k
    THEN d.items[CHOOSE i \in 1..Len(d.items) : d.items[i][1] = k][2]
    ELSE PyNone

\* kwargs.get(k): kwargs is a function from the keywords given to values.
kwargs_get(kwargs, k) == IF k \in DOMAIN kwargs THEN kwargs[k] ELSE PyNone

Digits == {"0", "1", "2", "3", "4", "5", "6", "7", "8", "9"}

DigitVal(c) ==
    CASE c = "0" -> 0 [] c = "1" -> 1 [] c = "2" -> 2 [] c = "3" -> 3
      [] c = "4" -> 4 [] c = "5" -> 5 [] c = "6" -> 6 [] c = "7" -> 7
      [] c = "8" -> 8 [] c = "9" -> 9

RECURSIVE DecimalVal(_, _)
DecimalVal(s, acc) ==
    IF s = <<>> THEN acc ELSE DecimalVal(Tail(s), 10 * acc + DigitVal(Head(s)))

\* int(x): [exc, n].  An int is itself, a string of digits its value, any
\* other string a ValueError, anything else a TypeError.
int(x) ==
    CASE x.py = "int" -> [exc |-> "none", n |-> x.n]
      [] x.py = "bool" -> [exc |-> "none", n |-> IF x.b THEN 1 ELSE 0]
      [] x.py = "str" ->
            IF x.s # <<>> /\ \A i \in 1..Len(x.s) : x.s[i] \in Digits
            THEN [exc |-> "none", n |-> DecimalVal(x.s, 0)]
            ELSE [exc |-> "ValueError", n |-> 0]
      [] OTHER -> [exc |-> "TypeError", n |-> 0]

\* A tag or a metric of a span: not set, or set to a value.
NoTag == [set |-> FALSE]

Tag(v) == [set |-> TRUE, v |-> v]

TagNames ==
    {"elasticsearch.method", "elasticsearch.url", "elasticsearch.params",
     "elasticsearch.body", "http.query.string", "http.status_code"}

MetricNames == {"_dd.measured", "_dd1.sr.eausr", "elasticsearch.took"}

(***************************************************************************)
(* The client modules and their transport modules                          *)
(***************************************************************************)
\* module_names, in the order _es_modules tries them (three of the seven:
\* one pre-8.x module with its own transport, and the two names under
\* which an 8.x client installs).
module_names == <<"elasticsearch", "elasticsearch7", "elasticsearch8">>

Variants == {module_names[i] : i \in 1..Len(module_names)}

\* elasticsearch.__version__
Version(elasticsearch) ==
    CASE elasticsearch = "elasticsearch7" -> <<7, 17, 9>>
      [] elasticsearch = "elasticsearch" -> <<8, 0, 0>>
      [] elasticsearch = "elasticsearch8" -> <<8, 5, 3>>

\* Tuple comparison a >= b of two 3-tuples.
VersionGE(a, b) ==
    \/ a[1] > b[1]
    \/ a[1] = b[1] /\ a[2] > b[2]
    \/ a[1] = b[1] /\ a[2] = b[2] /\ a[3] >= b[3]

IsVersion8(elasticsearch) == VersionGE(Version(elasticsearch), <<8, 0, 0>>)

\* getattr(elasticsearch, "transport", False): a pre-8.x client module has
\* the transport submodule as an attribute, an 8.x one does not.
TransportAttr(elasticsearch) ==
    IF IsVersion8(elasticsearch) THEN "False" ELSE elasticsearch

ElasticTransport == "elastic_transport"

_determine_transport_module(elasticsearch) ==
    LET transport_module == TransportAttr(elasticsearch)
    IN  IF transport_module = "False" THEN ElasticTransport
        ELSE transport_module

TransportModules == {_determine_transport_module(v) : v \in Variants}

\* _es_modules(): the installed modules in the order of module_names.
_es_modules(inst) == SelectSeq(module_names, LAMBDA m : m \in inst)

(***************************************************************************)
(* Patch controller.  The patch state is                                   *)
(*   [flags, wrapped, pinned, exc].                                        *)
(***************************************************************************)
\* wrapt.wrap_function_wrapper(module, "Transport.perform_request", w): the
\* attribute becomes a wrapper around what it was.
wrap_function_wrapper(w, tm, elasticsearch) ==
    [w EXCEPT ![tm] = <<elasticsearch>> \o @]

\* ddtrace's unwrap(obj, attr): when the attribute is a wrapper, it becomes
\* what that wrapper wraps.
unwrap(w, tm) == [w EXCEPT ![tm] = IF @ = <<>> THEN @ ELSE Tail(@)]

\* Line 54, "import elastic_transport", raises ImportError when a client
\* module without a transport attribute meets a missing elastic_transport.
ImportFails(elasticsearch) ==
    TransportAttr(elasticsearch) = "False" /\ elastic_transport = "missing"

\* transport_module.Transport: AttributeError when the module has no
\* Transport class (wrapt's resolve_path at line 66, the attribute access
\* at line 79).
HasTransport(transport_module) ==
    transport_module = ElasticTransport => elastic_transport = "ok"

\* Faulty variant of _patch: the _datadog_patch test of line 62 is missing,
\* so every patch() wraps again.
_patch_Unguarded(st, elasticsearch) ==
    LET transport_module == _determine_transport_module(elasticsearch)
    IN  [st EXCEPT
           !.flags = [@ EXCEPT ![elasticsearch] = TRUE],
           !.wrapped = wrap_function_wrapper(@, transport_module, elasticsearch),
           !.pinned = @ \cup {transport_module}]

\* st.exc is the exception on its way out of the call, "None" when there
\* is none.
_patch(st, elasticsearch) ==
    IF st.flags[elasticsearch] THEN st
    ELSE LET flagged == [st EXCEPT !.flags = [@ EXCEPT ![elasticsearch] = TRUE]]
             transport_module == _determine_transport_module(elasticsearch)
         IN  IF ImportFails(elasticsearch)
             THEN [flagged EXCEPT !.exc = "ImportError"]
             ELSE IF ~HasTransport(transport_module)
             THEN [flagged EXCEPT !.exc = "AttributeError"]
             ELSE [flagged EXCEPT
                     !.wrapped = wrap_function_wrapper(@, transport_module,
                                                       elasticsearch),
                     !.pinned = @ \cup {transport_module}]

_unpatch(st, elasticsearch) ==
    IF st.flags[elasticsearch]
    THEN LET cleared == [st EXCEPT !.flags = [@ EXCEPT ![elasticsearch] = FALSE]]
             transport_module == _determine_transport_module(elasticsearch)
         IN  IF ImportFails(elasticsearch)
             THEN [cleared EXCEPT !.exc = "ImportError"]
             ELSE IF ~HasTransport(transport_module)
             THEN [cleared EXCEPT !.exc = "AttributeError"]
             ELSE [cleared EXCEPT !.wrapped = unwrap(@, transport_module)]
    ELSE st

\* The for loop of patch(): an exception of _patch ends it.
RECURSIVE PatchAll(_, _)
PatchAll(st, modules) ==
    IF modules = <<>> \/ st.exc # "None" THEN st
    ELSE PatchAll(_patch(st, Head(modules)), Tail(modules))

\* The for loop of unpatch(): an exception of _unpatch ends it.
RECURSIVE UnpatchAll(_, _)
UnpatchAll(st, modules) ==
    IF modules = <<>> \/ st.exc # "None" THEN st
    ELSE UnpatchAll(_unpatch(st, Head(modules)), Tail(modules))

PatchState ==
    [flags |-> datadog_patch, wrapped |-> wrapped, pinned |-> pinned,
     exc |-> "None"]

\* patch()
patch ==
    LET st == PatchAll(PatchState, _es_modules(installed))
        h == Append(calls, "patch")
    IN  /\ datadog_patch' = st.flags
        /\ wrapped' = st.wrapped
        /\ pinned' = st.pinned
        /\ calls' = IF Len(h) > MaxCalls THEN Tail(h) ELSE h
        /\ UNCHANGED <<installed, elastic_transport, callvars, pvars>>

\* unpatch()
unpatch ==
    LET st == UnpatchAll(PatchState, _es_modules(installed))
        h == Append(calls, "unpatch")
    IN  /\ datadog_patch' = st.flags
        /\ wrapped' = st.wrapped
        /\ pinned' = st.pinned
        /\ calls' = IF Len(h) > MaxCalls THEN Tail(h) ELSE h
        /\ UNCHANGED <<installed, elastic_transport, callvars, pvars>>

(***************************************************************************)
(* Request interceptor: _perform_request(func, instance, args, kwargs) of  *)
(* the wrapper _get_perform_request(elasticsearch) returns.                *)
(*                                                                         *)
(* A call is  [tm, pin, args, kwargs, cfg, will]:  the transport module of *)
(* the instance, what Pin.get_from(instance) gives ("none", "disabled" or  *)
(* "enabled"), the positional and keyword arguments, the integration       *)
(* configuration read during the call, and what the original method does   *)
(* when it is invoked.  An outcome is [kind |-> "return", val |-> result]  *)
(* or [kind |-> "raise", val |-> exception].                               *)
(***************************************************************************)
Return(v) == [kind |-> "return", val |-> v]

Raise(e) == [kind |-> "raise", val |-> e]

NoOutcome == [kind |-> "none"]

\* Exceptions.  NotFoundError is a TransportError of the pre-8.x clients
\* and carries status_code; the 8.x TransportError carries none.
TransportErrorClasses == {"TransportError", "NotFoundError"}

\* isinstance(e, elasticsearch.exceptions.TransportError)
IsTransportError(e) == e.exc \in TransportErrorClasses

\* getattr(e, "status_code", 500)
StatusCodeOf(e) == IF "status_code" \in DOMAIN e THEN e.status_code ELSE 500

\* Faulty variant of PinEnabled: only "not pin" is tested, so a disabled
\* Pin traces.
PinEnabled_IgnoresDisabled(pin) == pin # "none"

\* "not pin or not pin.enabled()" is false: the call is traced.
PinEnabled(pin) == pin = "enabled"

\* json.dumps of a body, as text.
Json(body) ==
    CASE body.py = "None" -> <<"n", "u", "l", "l">>
      [] body.py = "doc" -> <<"{", body.id, "}">>

\* The client serializer: [exc, out].  A pre-8.x serializer returns text,
\* the 8.x default_serializer bytes; a document that cannot be serialized
\* raises SerializationError.
Serializable(body) == ~(body.py = "doc" /\ body.id = "unserializable")

serializer_dumps(body) ==
    IF Serializable(body)
    THEN [exc |-> "none", out |-> [py |-> "str", s |-> Json(body)]]
    ELSE [exc |-> "SerializationError"]

default_serializer_dumps(body) ==
    IF Serializable(body)
    THEN [exc |-> "none", out |-> [py |-> "bytes", b |-> Json(body)]]
    ELSE [exc |-> "SerializationError"]

\* bytes.decode("utf-8")
decode_utf8(x) == [py |-> "str", s |-> x.b]

\* pin.tracer.trace("elasticsearch.query", service=..., span_type=...)
NewSpan(elasticsearch, sampled) ==
    [by       |-> elasticsearch,
     name     |-> "elasticsearch.query",
     sampled  |-> sampled,
     tags     |-> [k \in TagNames |-> NoTag],
     metrics  |-> [k \in MetricNames |-> NoTag],
     error    |-> 0,
     resource |-> <<"elasticsearch.query">>,
     finished |-> 0]

set_tag(span, key, value) == [span EXCEPT !.tags[key] = Tag(value)]

set_metric(span, key, value) == [span EXCEPT !.metrics[key] = Tag(value)]

\* set_tag(SPAN_MEASURED_KEY): the span is marked as measured.
set_measured(span) == set_metric(span, "_dd.measured", 1)

\* set_tag(ANALYTICS_SAMPLE_RATE_KEY, rate): nothing is set for None.
set_analytics(span, rate) ==
    IF rate = "None" THEN span ELSE set_metric(span, "_dd1.sr.eausr", rate)

\* quantize(span): the resource becomes "<method> <quantized url>".
quantize(span) ==
    [span EXCEPT !.resource = <<span.tags["elasticsearch.method"].v, " ">>
                              \o span.tags["elasticsearch.url"].v]

\* Leaving the "with pin.tracer.trace(...) as span" block, by return or by
\* exception: the span is finished.
finish(span) == [span EXCEPT !.finished = @ + 1]

\* Lines 117-121: the method, the URL and the parameters to tag.
\* [exc, method, url, params].
RequestDescriptor(elasticsearch, args, kwargs) ==
    IF IsVersion8(elasticsearch)
    THEN Let(_parse_elasticsearch8_urlparams(args[2]), LAMBDA p :
             [exc |-> p.exc, method |-> args[1], url |-> p.url,
              params |-> p.params])
    ELSE Let(kwargs_get(kwargs, "params"), LAMBDA given :
             [exc |-> "none", method |-> args[1], url |-> args[2],
              params |-> IF Truthy(given) THEN given.items ELSE EmptyDict])

\* Faulty variant of BodyMethods: POST is forgotten.
BodyMethods_GetOnly == {"GET"}

BodyMethods == {"GET", "POST"}

\* Faulty variant of TagBody: an exception of the serializer is swallowed
\* and the span gets no body tag.
TagBody_SoftFail(elasticsearch, span, method, body) ==
    IF method \in BodyMethods /\ Serializable(body)
    THEN IF IsVersion8(elasticsearch)
         THEN [exc |-> "none",
               span |-> set_tag(span, "elasticsearch.body",
                                decode_utf8(default_serializer_dumps(body).out).s)]
         ELSE [exc |-> "none",
               span |-> set_tag(span, "elasticsearch.body",
                                serializer_dumps(body).out.s)]
    ELSE [exc |-> "none", span |-> span]

\* Lines 132-136: the body tag.  [exc, span].
TagBody(elasticsearch, span, method, body) ==
    IF method \in BodyMethods
    THEN IF IsVersion8(elasticsearch)
         THEN LET d == default_serializer_dumps(body)
              IN  IF d.exc # "none" THEN [exc |-> d.exc, span |-> span]
                  ELSE [exc |-> "none",
                        span |-> set_tag(span, "elasticsearch.body",
                                         decode_utf8(d.out).s)]
         ELSE LET d == serializer_dumps(body)
              IN  IF d.exc # "none" THEN [exc |-> d.exc, span |-> span]
                  ELSE [exc |-> "none",
                        span |-> set_tag(span, "elasticsearch.body", d.out.s)]
    ELSE [exc |-> "none", span |-> span]

\* Faulty variant of TagQueryString: the option is not read.
TagQueryString_Always(span, cfg, encoded_params) ==
    set_tag(span, "http.query.string", encoded_params)

\* Lines 129-130: the query string tag, when the option is on.
TagQueryString(span, cfg, encoded_params) ==
    IF cfg.trace_query_string
    THEN set_tag(span, "http.query.string", encoded_params)
    ELSE span

\* Lines 117-143: the tagging of a sampled span before the original call.
\* [exc, span].
TagRequest(elasticsearch, span0, args, kwargs, cfg) ==
    Let(RequestDescriptor(elasticsearch, args, kwargs), LAMBDA d :
        IF d.exc # "none" THEN [exc |-> d.exc, span |-> span0]
        ELSE
        Let(urlencode(d.params), LAMBDA encoded_params :
        Let(TagBody(elasticsearch,
                    TagQueryString(
                        set_tag(set_tag(set_tag(span0,
                            "elasticsearch.method", d.method),
                            "elasticsearch.url", d.url),
                            "elasticsearch.params", encoded_params),
                        cfg, encoded_params),
                    d.method, kwargs_get(kwargs, "body")), LAMBDA b :
            IF b.exc # "none" THEN b
            ELSE Let(set_analytics(b.span, cfg.analytics_sample_rate),
                     LAMBDA s : [exc |-> "none", span |-> quantize(s)]))))

\* Faulty variant of BeforeCall: on the sampled-out path the wrapper is left
\* without func being called.
BeforeCall_SampledOutNoCall(elasticsearch, call, args, kwargs, sampled) ==
    IF ~PinEnabled(call.pin) THEN [kind |-> "pass"]
    ELSE IF ~sampled
    THEN [kind |-> "raised",
          span |-> finish(set_measured(NewSpan(elasticsearch, sampled))),
          exc  |-> [exc |-> "TransportError"]]
    ELSE Let(TagRequest(elasticsearch,
                        set_measured(NewSpan(elasticsearch, sampled)),
                        args, kwargs, call.cfg), LAMBDA t :
             IF t.exc # "none"
             THEN [kind |-> "raised", span |-> finish(t.span),
                   exc |-> [exc |-> t.exc]]
             ELSE [kind |-> "traced", span |-> t.span])

\* Faulty variant of BeforeCall: the measured mark is set after the
\* sampling test, so a sampled-out span does not get it.
BeforeCall_MeasuredLate(elasticsearch, call, args, kwargs, sampled) ==
    IF ~PinEnabled(call.pin) THEN [kind |-> "pass"]
    ELSE IF ~sampled
    THEN [kind |-> "unsampled", span |-> NewSpan(elasticsearch, sampled)]
    ELSE Let(TagRequest(elasticsearch,
                        set_measured(NewSpan(elasticsearch, sampled)),
                        args, kwargs, call.cfg), LAMBDA t :
             IF t.exc # "none"
             THEN [kind |-> "raised", span |-> finish(t.span),
                   exc |-> [exc |-> t.exc]]
             ELSE [kind |-> "traced", span |-> t.span])

\* Lines 104-143: the wrapper up to its call of func.
\*   [kind, span, exc]:  kind is "pass" (no pin, or disabled: func is called
\*   with no span), "unsampled" (the span is open, measured, and func is
\*   called at once), "traced" (the span is open and tagged) or "raised"
\*   (an exception left the with block before func was called; the span is
\*   finished).
BeforeCall(elasticsearch, call, args, kwargs, sampled) ==
    IF ~PinEnabled(call.pin) THEN [kind |-> "pass"]
    ELSE IF ~sampled
    THEN [kind |-> "unsampled",
          span |-> set_measured(NewSpan(elasticsearch, sampled))]
    ELSE Let(TagRequest(elasticsearch,
                        set_measured(NewSpan(elasticsearch, sampled)),
                        args, kwargs, call.cfg), LAMBDA t :
             IF t.exc # "none"
             THEN [kind |-> "raised", span |-> finish(t.span),
                   exc |-> [exc |-> t.exc]]
             ELSE [kind |-> "traced", span |-> t.span])

\* Lines 154-168, the body of the try block: [exc, span, status].  An
\* exception (a result without get, a took that int() rejects) ends the
\* block where it is raised: status keeps the value assigned before it.
\* Faulty variant of RecordTook: the truthiness test for every version.
RecordTook_Truthy(elasticsearch, took) == Truthy(took)

\* Lines 162 and 166: whether took is recorded.  From 8.0.0 on the test is
\* "took is not None", before it "if took".
RecordTook(elasticsearch, took) ==
    IF IsVersion8(elasticsearch) THEN took.py # "None" ELSE Truthy(took)

ExtractTook(elasticsearch, span, result) ==
    LET pair == result.py = "tuple" /\ Len(result.elems) = 2
        status == IF pair THEN result.elems[1] ELSE PyNone
        data == IF pair THEN result.elems[2] ELSE result
    IN  IF data.py # "dict"
        THEN [exc |-> "AttributeError", span |-> span, status |-> status]
        ELSE LET took == dict_get(data, "took")
             IN  IF ~RecordTook(elasticsearch, took)
                 THEN [exc |-> "none", span |-> span, status |-> status]
                 ELSE IF int(took).exc # "none"
                 THEN [exc |-> int(took).exc, span |-> span, status |-> status]
                 ELSE [exc |-> "none",
                       span |-> set_metric(span, "elasticsearch.took", int(took).n),
                       status |-> status]

\* Faulty variant of SoftFail: the except clause is missing, so an exception
\* of the try block leaves the wrapper.
SoftFail_Raises(exc, result) ==
    IF exc = "none" THEN Return(result) ELSE Raise([exc |-> exc])

\* Lines 169-170, "except Exception: pass": whatever the try block raised,
\* the wrapper goes on to return the result of the original call.
SoftFail(exc, result) == Return(result)

\* Lines 147-150: the original call raised.
OnError(span, e) ==
    IF IsTransportError(e)
    THEN [set_tag(span, "http.status_code", StatusCodeOf(e)) EXCEPT !.error = 1]
    ELSE span

\* Faulty variant of OnResult: the status tag is set inside the try block,
\* after the took extraction, so a failed extraction loses it.
OnResult_StatusInTry(elasticsearch, span, result) ==
    Let(ExtractTook(elasticsearch, span, result), LAMBDA x :
        [span |-> IF x.exc = "none" /\ Truthy(x.status)
                  THEN set_tag(x.span, "http.status_code", x.status)
                  ELSE x.span,
         out  |-> SoftFail(x.exc, result)])

\* Lines 152-175: the original call returned.  [span, out].
OnResult(elasticsearch, span, result) ==
    Let(ExtractTook(elasticsearch, span, result), LAMBDA x :
        [span |-> IF Truthy(x.status)
                  THEN set_tag(x.span, "http.status_code", x.status)
                  ELSE x.span,
         out  |-> SoftFail(x.exc, result)])

\* Faulty variant of AfterCall: the span is finished by hand before the
\* return statements only, so an exception of func leaves it open.
AfterCall_LeakOnRaise(elasticsearch, kind, span, outcome) ==
    IF outcome.kind = "raise"
    THEN [span |-> IF kind = "traced" THEN OnError(span, outcome.val) ELSE span,
          out  |-> outcome]
    ELSE IF kind = "unsampled"
    THEN [span |-> finish(span), out |-> outcome]
    ELSE Let(OnResult(elasticsearch, span, outcome.val), LAMBDA r :
             [span |-> finish(r.span), out |-> r.out])

\* Lines 115 and 145-175, and the end of the with block: the wrapper from
\* the moment func returns or raises.  [span, out].  An exception is
\* re-raised as it is; the span is finished on every way out.
AfterCall(elasticsearch, kind, span, outcome) ==
    CASE kind = "unsampled" -> [span |-> finish(span), out |-> outcome]
      [] kind = "traced" /\ outcome.kind = "raise" ->
            [span |-> finish(OnError(span, outcome.val)), out |-> outcome]
      [] kind = "traced" /\ outcome.kind = "return" ->
            Let(OnResult(elasticsearch, span, outcome.val), LAMBDA r :
                [span |-> finish(r.span), out |-> r.out])

(***************************************************************************)
(* Parser harness: the parser applied to every short query string.         *)
(***************************************************************************)
QueryAlphabet == {"k", "=", "&", "%", "3", "A", ":"}

QueryStrings == UNION {[1..n -> QueryAlphabet] : n \in 0..MaxQueryLen}

PathPrefix == <<"/", "i">>

\* sort=name%3Adesc&size=100
ExampleQuery ==
    <<"s", "o", "r", "t", "=", "n", "a", "m", "e", "%", "3", "A",
      "d", "e", "s", "c", "&", "s", "i", "z", "e", "=", "1", "0", "0">>

ExampleUrl == PathPrefix \o <<"?">> \o ExampleQuery

NoResult == [exc |-> "unset", url |-> <<>>, params |-> <<>>]

ParserInit ==
    /\ installed = {}
    /\ elastic_transport = "ok"
    /\ datadog_patch = [v \in Variants |-> FALSE]
    /\ wrapped = [tm \in TransportModules |-> <<>>]
    /\ pinned = {}
    /\ calls = <<>>
    /\ workers = {}
    /\ pc = [t \in {"t1", "t2"} |-> "idle"]
    /\ req = [t \in {"t1", "t2"} |-> [tm |-> "none"]]
    /\ chain = [t \in {"t1", "t2"} |-> <<>>]
    /\ passed = [t \in {"t1", "t2"} |-> [args |-> <<>>, kwargs |-> [k \in {} |-> 0]]]
    /\ stack = [t \in {"t1", "t2"} |-> <<>>]
    /\ spans = [t \in {"t1", "t2"} |-> <<>>]
    /\ orig = [t \in {"t1", "t2"} |-> <<>>]
    /\ flight = [t \in {"t1", "t2"} |-> [kind |-> "none"]]
    /\ purl \in {PathPrefix \o <<"?">> \o q : q \in QueryStrings}
                \cup {PathPrefix, ExampleUrl}
    /\ pstep = "input"
    /\ pres = NoResult
    /\ penc = <<>>

ParseUrl ==
    /\ pstep = "input"
    /\ pres' = _parse_elasticsearch8_urlparams(purl)
    /\ pstep' = "parsed"
    /\ UNCHANGED <<purl, penc, patchvars, callvars>>

EncodeParams ==
    /\ pstep = "parsed"
    /\ pres.exc = "none"
    /\ penc' = urlencode(pres.params)
    /\ pstep' = "encoded"
    /\ UNCHANGED <<purl, pres, patchvars, callvars>>

ParserNext == ParseUrl \/ EncodeParams

ParserSpec == ParserInit /\ [][ParserNext]_vars

(***************************************************************************)
(* The host application: threads that call transport.perform_request, and  *)
(* patch() / unpatch() called while no request is in progress.             *)
(***************************************************************************)
Threads == {"t1", "t2"}

SearchPath == <<"/", "i", "/", "_", "s">>

\* URLs given to a pre-8.x transport: the path alone.
Urls7 == {PathPrefix, SearchPath}

\* URLs given to an 8.x transport: the path and the query string.
Urls8 ==
    {PathPrefix,
     ExampleUrl,
     PathPrefix \o <<"?", "k", "=", "%", "3", "A">>,
     PathPrefix \o <<"?", "p">>,
     PathPrefix \o <<"?", "k", "=", "3", "=", "A">>,
     PathPrefix \o <<"?", "=", "3">>,
     PathPrefix \o <<"?", "k", "=", "3", "&", "k", "=", "A">>}

Methods == {"GET", "POST", "PUT"}

\* {"sort": "name:desc", "size": "100"}
ExampleParams ==
    <<<<(<<"s", "o", "r", "t">>), (<<"n", "a", "m", "e", ":", "d", "e", "s", "c">>)>>,
      <<(<<"s", "i", "z", "e">>), (<<"1", "0", "0">>)>>>>

ParamsGiven == {PyNone, PyDict(ExampleParams)}

Bodies == {PyDoc("query"), PyDoc("unserializable")}

NoKwargs == [k \in {} |-> [py |-> "None"]]

\* The keyword arguments of a call: params only before 8.x.
KwargsOf(tm) ==
    {NoKwargs} \cup {[body |-> b] : b \in Bodies}
    \cup (IF tm = ElasticTransport THEN {}
          ELSE {[params |-> p] : p \in ParamsGiven}
               \cup {[params |-> p, body |-> b] : p \in ParamsGiven, b \in Bodies})

UrlsOf(tm) == IF tm = ElasticTransport THEN Urls8 ELSE Urls7

Pins == {"none", "disabled", "enabled"}

\* config.elasticsearch as read during a call: the defaults, or the query
\* string traced and analytics enabled with a rate.
Configs ==
    {[trace_query_string |-> FALSE, analytics_sample_rate |-> "None"],
     [trace_query_string |-> TRUE, analytics_sample_rate |-> "0.5"]}

TookDict(took) == PyDict(<<<<"took", took>>>>)

\* What the original method returns ...
Results ==
    {PyDict(EmptyDict), TookDict(PyNone), TookDict(PyInt(0)), TookDict(PyInt(5)),
     TookDict(PyStr(<<"7">>)), TookDict(PyStr(<<"x">>)),
     PyBool(TRUE),
     PyTuple(<<PyInt(200), TookDict(PyInt(5))>>),
     PyTuple(<<PyInt(200), PyBool(TRUE)>>),
     PyTuple(<<PyNone, TookDict(PyInt(5))>>),
     PyTuple(<<PyInt(200), TookDict(PyInt(5)), PyNone>>)}

\* ... or raises.
Errors ==
    {[exc |-> "NotFoundError", status_code |-> 404],
     [exc |-> "TransportError"],
     [exc |-> "RuntimeError"]}

Outcomes == {Return(r) : r \in Results} \cup {Raise(e) : e \in Errors}

NoCall == [tm |-> "none"]

\* Faulty variant of CallArgs: the URL split for tagging replaces the one
\* in args, so the callee gets the path without its query string.
CallArgs_PathOnly(args, kwargs) ==
    [args |-> <<args[1], urlparse(args[2]).path>>, kwargs |-> kwargs]

\* func(*args, **kwargs): what the wrapper hands to the function it wraps.
CallArgs(args, kwargs) == [args |-> args, kwargs |-> kwargs]

NothingPassed == [args |-> <<>>, kwargs |-> NoKwargs]

\* The sets of client modules installed together.
InstalledChoices ==
    {{"elasticsearch7", "elasticsearch8"}, {"elasticsearch", "elasticsearch8"}}

Quiet == \A t \in Threads : pc[t] = "idle"

Init ==
    /\ installed \in InstalledChoices
    /\ elastic_transport = "ok"
    /\ datadog_patch = [v \in Variants |-> FALSE]
    /\ wrapped = [tm \in TransportModules |-> <<>>]
    /\ pinned = {}
    /\ calls = <<>>
    /\ workers = {"t1"}
    /\ pc = [t \in Threads |-> "idle"]
    /\ req = [t \in Threads |-> NoCall]
    /\ chain = [t \in Threads |-> <<>>]
    /\ passed = [t \in Threads |-> NothingPassed]
    /\ stack = [t \in Threads |-> <<>>]
    /\ spans = [t \in Threads |-> <<>>]
    /\ orig = [t \in Threads |-> <<>>]
    /\ flight = [t \in Threads |-> NoOutcome]
    /\ purl = <<>>
    /\ pstep = "off"
    /\ pres = NoResult
    /\ penc = <<>>

Patch == Quiet /\ patch

Unpatch == Quiet /\ unpatch

\* transport.perform_request(method, url, **kwargs) on an instance of the
\* Transport class of tm: the attribute is looked up, and called.
Request(t) ==
    /\ t \in workers
    /\ pc[t] = "idle"
    /\ \E tm \in {_determine_transport_module(v) : v \in installed} :
       /\ HasTransport(tm)
       /\ \E pin \in Pins, method \in Methods, url \in UrlsOf(tm),
          kwargs \in KwargsOf(tm), cfg \in Configs, will \in Outcomes :
          /\ req' = [req EXCEPT ![t] =
                        [tm |-> tm, pin |-> pin, args |-> <<method, url>>,
                         kwargs |-> kwargs, cfg |-> cfg, will |-> will]]
          /\ chain' = [chain EXCEPT ![t] = wrapped[tm]]
          /\ passed' = [passed EXCEPT ![t] = CallArgs(<<method, url>>, kwargs)]
    /\ pc' = [pc EXCEPT ![t] = "call"]
    /\ UNCHANGED <<patchvars, workers, stack, spans, orig, flight, pvars>>

\* The next wrapper runs up to its call of the function it wraps.
Enter(t) ==
    /\ pc[t] = "call"
    /\ chain[t] # <<>>
    /\ \E sampled \in BOOLEAN :
       \E b \in {BeforeCall(Head(chain[t]), req[t], passed[t].args,
                            passed[t].kwargs, sampled)} :
       LET elasticsearch == Head(chain[t])
           n == Len(spans[t]) + 1
       IN  /\ spans' = [spans EXCEPT ![t] =
                           IF b.kind = "pass" THEN @ ELSE Append(@, b.span)]
           /\ IF b.kind = "raised"
              THEN /\ flight' = [flight EXCEPT ![t] = Raise(b.exc)]
                   /\ pc' = [pc EXCEPT ![t] =
                                IF stack[t] = <<>> THEN "done" ELSE "ret"]
                   /\ UNCHANGED <<stack, chain, passed>>
              ELSE /\ stack' = [stack EXCEPT ![t] =
                                   Append(@, [by |-> elasticsearch,
                                              kind |-> b.kind,
                                              span |-> IF b.kind = "pass"
                                                       THEN 0 ELSE n])]
                   /\ chain' = [chain EXCEPT ![t] = Tail(@)]
                   /\ passed' = [passed EXCEPT ![t] =
                                    CallArgs(passed[t].args, passed[t].kwargs)]
                   /\ UNCHANGED <<flight, pc>>
    /\ UNCHANGED <<patchvars, workers, req, orig, pvars>>

\* The original Transport.perform_request runs.
Original(t) ==
    /\ pc[t] = "call"
    /\ chain[t] = <<>>
    /\ orig' = [orig EXCEPT ![t] = Append(@, passed[t])]
    /\ flight' = [flight EXCEPT ![t] = req[t].will]
    /\ pc' = [pc EXCEPT ![t] = IF stack[t] = <<>> THEN "done" ELSE "ret"]
    /\ UNCHANGED <<patchvars, workers, req, chain, passed, stack, spans, pvars>>

\* The innermost wrapper in progress gets the result or the exception of
\* the function it called, and runs to its end.
Exit(t) ==
    /\ pc[t] = "ret"
    /\ stack[t] # <<>>
    /\ \E f \in {stack[t][Len(stack[t])]} :
       \E a \in {IF f.kind = "pass"
                  THEN [out |-> flight[t]]
                  ELSE AfterCall(f.by, f.kind, spans[t][f.span], flight[t])} :
           /\ spans' = [spans EXCEPT ![t] =
                           IF f.kind = "pass" THEN @
                           ELSE [@ EXCEPT ![f.span] = a.span]]
           /\ flight' = [flight EXCEPT ![t] = a.out]
    /\ stack' = [stack EXCEPT ![t] = SubSeq(@, 1, Len(@) - 1)]
    /\ pc' = [pc EXCEPT ![t] = IF Len(stack[t]) = 1 THEN "done" ELSE "ret"]
    /\ UNCHANGED <<patchvars, workers, req, chain, passed, orig, pvars>>

\* The caller has its result or its exception; the thread is free again.
Finish(t) ==
    /\ pc[t] = "done"
    /\ pc' = [pc EXCEPT ![t] = "idle"]
    /\ req' = [req EXCEPT ![t] = NoCall]
    /\ chain' = [chain EXCEPT ![t] = <<>>]
    /\ passed' = [passed EXCEPT ![t] = NothingPassed]
    /\ stack' = [stack EXCEPT ![t] = <<>>]
    /\ spans' = [spans EXCEPT ![t] = <<>>]
    /\ orig' = [orig EXCEPT ![t] = <<>>]
    /\ flight' = [flight EXCEPT ![t] = NoOutcome]
    /\ UNCHANGED <<patchvars, workers, pvars>>

Next ==
    \/ Patch
    \/ Unpatch
    \/ \E t \in Threads : Request(t)
    \/ \E t \in Threads : Enter(t)
    \/ \E t \in Threads : Original(t)
    \/ \E t \in Threads : Exit(t)
    \/ \E t \in Threads : Finish(t)

Spec == Init /\ [][Next]_vars

(***************************************************************************)
(* Properties.  A call is judged when it is over (pc = "done"): req holds   *)
(* what the caller passed and what the original method does, orig what the *)
(* original method received, flight what the caller gets, spans the spans  *)
(* of the call.                                                            *)
(***************************************************************************)
Done(t) == pc[t] = "done"

\* perform_request of the instance's transport class is wrapped.
Intercepted(t) == wrapped[req[t].tm] # <<>>

\* The original method was invoked and returned.
Succeeded(t) == orig[t] # <<>> /\ req[t].will.kind = "return"

AllSampled(t) == \A i \in 1..Len(spans[t]) : spans[t][i].sampled

\* C1: on an intercepted call whose instance has no Pin, or a disabled one,
\* the original method is invoked exactly once with the caller's arguments,
\* the caller gets its result or its exception unchanged, and no span is
\* opened at any moment of the call.
C1_Passthrough ==
    \A t \in Threads :
        (pc[t] # "idle" /\ Intercepted(t) /\ req[t].pin \in {"none", "disabled"})
        => /\ spans[t] = <<>>
           /\ Len(orig[t]) <= 1
           /\ Done(t) => /\ orig[t] = <<CallArgs(req[t].args, req[t].kwargs)>>
                         /\ flight[t] = req[t].will

C1_Witness ==
    \E t \in Threads :
        /\ Done(t) /\ Intercepted(t) /\ req[t].pin = "disabled"
        /\ Len(orig[t]) = 1
        /\ req[t].will.kind = "raise" /\ flight[t] = req[t].will

\* C2: a call with an enabled Pin and sampled spans whose original call
\* returns produces exactly one span, tagged with the method (the first
\* positional argument), the URL (the request path) and the URL-encoding of
\* the query parameters (the params keyword before 8.x, the query string of
\* the URL from 8.x on).
C2_OneTaggedSpan ==
    \A t \in Threads :
        (Done(t) /\ Intercepted(t) /\ req[t].pin = "enabled" /\ Succeeded(t)
         /\ AllSampled(t))
        => /\ Len(spans[t]) = 1
           /\ LET span == spans[t][1]
                  d == RequestDescriptor(span.by, req[t].args, req[t].kwargs)
              IN  /\ span.tags["elasticsearch.method"] = Tag(req[t].args[1])
                  /\ span.tags["elasticsearch.url"] = Tag(d.url)
                  /\ span.tags["elasticsearch.params"] = Tag(urlencode(d.params))

C4_TransportError ==
    \A t \in Threads :
        (Done(t) /\ Intercepted(t) /\ req[t].pin = "enabled" /\ orig[t] # <<>>
         /\ req[t].will.kind = "raise" /\ IsTransportError(req[t].will.val)
         /\ AllSampled(t))
        => /\ Len(spans[t]) = 1
           /\ spans[t][1].error = 1
           /\ spans[t][1].tags["http.status_code"] =
                 Tag(IF "status_code" \in DOMAIN req[t].will.val
                     THEN req[t].will.val.status_code ELSE 500)
           /\ flight[t] = req[t].will
           /\ Len(orig[t]) = 1

\* C5: a call whose original method would return gets a result from the
\* wrapper too, whatever its arguments, URL, query string and result; the
\* one exception is a body the serializer cannot dump.
C5_NeverFailsACall ==
    \A t \in Threads :
        (Done(t) /\ Intercepted(t) /\ req[t].will.kind = "return")
        => \/ flight[t].kind = "return"
           \/ flight[t] = Raise([exc |-> "SerializationError"])

\* C6: every span the wrapper opens is finished exactly once, on every way
\* out: a span is open (finished 0 times) exactly while its wrapper
\* invocation is in progress, and finished once from then on; when the call
\* is over no span is open.
C6_SpanClosedOnce ==
    \A t \in Threads :
        /\ \A i \in 1..Len(spans[t]) :
              spans[t][i].finished =
                 IF \E k \in 1..Len(stack[t]) : stack[t][k].span = i
                 THEN 0 ELSE 1
        /\ Done(t) => /\ stack[t] = <<>>
                      /\ \A i \in 1..Len(spans[t]) : spans[t][i].finished = 1

\* The original call raised an exception that is no TransportError, and the
\* span of the call is finished.
C6_Witness ==
    \E t \in Threads :
        /\ Done(t) /\ Len(spans[t]) = 1 /\ spans[t][1].sampled
        /\ orig[t] # <<>>
        /\ flight[t] = Raise([exc |-> "RuntimeError"])
        /\ spans[t][1].finished = 1

\* C7: when the original call of a traced, sampled call returns R, the
\* caller gets exactly R; an exception of the took extraction (R or its
\* data has no get, took is not convertible to an integer) is swallowed and
\* the span has no took metric.
C7_ResultUnchanged ==
    \A t \in Threads :
        (Done(t) /\ Intercepted(t) /\ req[t].pin = "enabled" /\ Succeeded(t)
         /\ AllSampled(t))
        => /\ flight[t] = req[t].will
           /\ LET R == req[t].will.val
                  data == IF R.py = "tuple" /\ Len(R.elems) = 2
                          THEN R.elems[2] ELSE R
                  fails == \/ data.py # "dict"
                           \/ /\ dict_get(data, "took").py = "str"
                              /\ int(dict_get(data, "took")).exc # "none"
              IN  fails => \A i \in 1..Len(spans[t]) :
                              spans[t][i].metrics["elasticsearch.took"] = NoTag

\* took is "x": int() raises, the caller still gets the result.
C7_Witness ==
    \E t \in Threads :
        /\ Done(t) /\ req[t].pin = "enabled" /\ Succeeded(t)
        /\ spans[t] # <<>> /\ AllSampled(t)
        /\ req[t].will = Return(TookDict(PyStr(<<"x">>)))
        /\ flight[t] = req[t].will

\* C8: the took metric depends on the client version.  From 8.0.0 on an
\* integer took is recorded whatever its value, 0 included; before, only
\* when it is not 0; a took that is absent or None is recorded by neither.
C8_TookByVersion ==
    \A t \in Threads :
        (Done(t) /\ Succeeded(t) /\ req[t].will.val.py = "dict")
        => \A i \in 1..Len(spans[t]) :
              LET span == spans[t][i]
                  took == dict_get(req[t].will.val, "took")
                  metric == span.metrics["elasticsearch.took"]
              IN  span.sampled =>
                    CASE took.py = "int" /\ VersionGE(Version(span.by), <<8, 0, 0>>)
                            -> metric = Tag(took.n)
                      [] took.py = "int" /\ ~VersionGE(Version(span.by), <<8, 0, 0>>)
                            -> metric = IF took.n = 0 THEN NoTag ELSE Tag(took.n)
                      [] took.py = "None" -> metric = NoTag
                      [] OTHER -> TRUE

\* An 8.x client, took = 0: the metric is 0.
C8_Witness ==
    \E t \in Threads :
        /\ Done(t) /\ Succeeded(t) /\ req[t].will.val = TookDict(PyInt(0))
        /\ Len(spans[t]) = 1 /\ spans[t][1].sampled
        /\ spans[t][1].by = "elasticsearch8"
        /\ spans[t][1].metrics["elasticsearch.took"] = Tag(0)

\* C9: on a traced, sampled call that reaches the original method, the body
\* tag is set exactly when the method is GET or POST, and is then the
\* serializer's output for the body keyword argument.
C9_BodyTagIffGetOrPost ==
    \A t \in Threads :
        (pc[t] # "idle" /\ orig[t] # <<>>)
        => \A i \in 1..Len(spans[t]) :
              spans[t][i].sampled =>
                 spans[t][i].tags["elasticsearch.body"] =
                    IF req[t].args[1] \in {"GET", "POST"}
                    THEN Tag(Json(kwargs_get(req[t].kwargs, "body")))
                    ELSE NoTag

\* A POST with a body: the tag is the serialized body.
C9_Witness ==
    \E t \in Threads :
        /\ Done(t) /\ orig[t] # <<>> /\ req[t].args[1] = "POST"
        /\ "body" \in DOMAIN req[t].kwargs
        /\ spans[t] # <<>> /\ spans[t][1].sampled
        /\ spans[t][1].tags["elasticsearch.body"] = Tag(<<"{", "query", "}">>)

\* The parameters of a query string, as a set: the pieces between "&".
Pairs(q) == LET ps == split(q, "&") IN {ps[i] : i \in 1..Len(ps)}

\* A key or a value written as URL-encoding writes what it stands for.
Canonical(s) == quote_plus(urldecode(s)) = s

\* A query string of key=value pairs with distinct non-empty keys.
WellFormed(q) ==
    /\ q # <<>>
    /\ LET ps == split(q, "&")
       IN  /\ \A i \in 1..Len(ps) :
                 LET kv == split(ps[i], "=")
                 IN  /\ Len(kv) = 2
                     /\ kv[1] # <<>>
                     /\ Canonical(kv[1])
                     /\ Canonical(kv[2])
           /\ \A i, j \in 1..Len(ps) :
                 i # j => split(ps[i], "=")[1] # split(ps[j], "=")[1]

\* C10: for the URL with the query string sort=name%3Adesc&size=100 the
\* parser returns the path and {sort: "name:desc", size: "100"}, and
\* urlencode of that mapping gives the same set of pairs; and for every
\* query string of well-formed key=value pairs with distinct non-empty
\* keys the parser returns the path and a mapping whose urlencode is the
\* query string again, as a set of pairs.
C10_RoundTrip ==
    LET q == urlparse(purl).query
    IN  /\ (pstep # "input" /\ purl = ExampleUrl) =>
              pres = [exc |-> "none", url |-> PathPrefix, params |-> ExampleParams]
        /\ (pstep = "encoded" /\ purl = ExampleUrl) =>
              Pairs(penc) = Pairs(ExampleQuery)
        /\ (pstep # "input" /\ WellFormed(q)) =>
              pres.exc = "none" /\ pres.url = PathPrefix
        /\ (pstep = "encoded" /\ WellFormed(q)) => Pairs(penc) = Pairs(q)

\* C11: on a sampled span the query-string tag is set exactly when the
\* trace_query_string option is on, and is then the params tag of the same
\* span.
C11_QueryStringTag ==
    \A t \in Threads :
        \A i \in 1..Len(spans[t]) :
            LET span == spans[t][i]
            IN  (span.sampled /\ span.tags["elasticsearch.params"].set)
                => span.tags["http.query.string"] =
                      IF req[t].cfg.trace_query_string
                      THEN span.tags["elasticsearch.params"]
                      ELSE NoTag

\* The option is on, the URL has a query string: both tags hold it.
C11_Witness ==
    \E t \in Threads :
        /\ Done(t) /\ Succeeded(t) /\ req[t].cfg.trace_query_string
        /\ Len(spans[t]) = 1 /\ spans[t][1].sampled
        /\ spans[t][1].tags["elasticsearch.params"] = Tag(ExampleQuery)
        /\ spans[t][1].tags["http.query.string"] = Tag(ExampleQuery)

\* The parameters of the query string handed to the parser, in order.
Params(url) == split(urlparse(url).query, "&")

\* C12: a query parameter without "=" maps its name to the empty string,
\* and the parser returns without raising (the other parameters of the
\* query string being key=value pairs).
C12_BareParameter ==
    (pstep # "input" /\ urlparse(purl).query # <<>>
     /\ (\A n \in 1..Len(Params(purl)) :
            /\ Params(purl)[n] # <<>>
            /\ Len(split(Params(purl)[n], "=")) <= 2)
     /\ \E i \in 1..Len(Params(purl)) : find(Params(purl)[i], "=") = 0)
    => /\ pres.exc = "none"
       /\ \A i \in 1..Len(Params(purl)) :
             LET param == Params(purl)[i]
             IN  (find(param, "=") = 0 /\ param # <<>>)
                 => \E j \in 1..Len(pres.params) :
                       pres.params[j] = <<param, <<>>>>

\* C13: only the first "=" of a parameter counts: the key is the text
\* before it, the value the URL-decoded rest, and the parser returns
\* without raising; a parameter whose key is empty is dropped, so that no
\* key of the mapping is empty.
C13_FirstEqualsSign ==
    (pstep # "input" /\ urlparse(purl).query # <<>>
     /\ \A i \in 1..Len(Params(purl)) : find(Params(purl)[i], "=") # 0)
    => /\ pres.exc = "none"
       /\ \A j \in 1..Len(pres.params) : pres.params[j][1] # <<>>
       /\ \A i \in 1..Len(Params(purl)) :
             LET param == Params(purl)[i]
                 at == find(param, "=")
                 k == SubSeq(param, 1, at - 1)
                 v == urldecode(SubSeq(param, at + 1, Len(param)))
                 later == \E n \in (i + 1)..Len(Params(purl)) :
                             LET q == Params(purl)[n]
                             IN  SubSeq(q, 1, find(q, "=") - 1) = k
             IN  IF k = <<>>
                 THEN TRUE
                 ELSE later \/ \E j \in 1..Len(pres.params) :
                                  pres.params[j] = <<k, v>>

\* C14: a span whose sampling decision is negative carries the measured
\* mark and none of the method, URL, params, query-string, body and
\* status-code tags nor the analytics and took metrics; the wrapper calls
\* the function it wraps once and returns what it returns, so that a call
\* whose spans are all sampled out invokes the original method exactly once
\* and gives the caller its result or exception.
C14_SampledOut ==
    \A t \in Threads :
        /\ \A i \in 1..Len(spans[t]) :
              ~spans[t][i].sampled =>
                 /\ \A k \in TagNames : spans[t][i].tags[k] = NoTag
                 /\ spans[t][i].metrics["_dd1.sr.eausr"] = NoTag
                 /\ spans[t][i].metrics["elasticsearch.took"] = NoTag
                 /\ spans[t][i].metrics["_dd.measured"] = Tag(1)
        /\ (Done(t) /\ spans[t] # <<>>
            /\ \A i \in 1..Len(spans[t]) : ~spans[t][i].sampled)
           => /\ orig[t] = <<[args |-> req[t].args, kwargs |-> req[t].kwargs]>>
              /\ flight[t] = req[t].will

\* Analytics on, the original call raises an error with a status code: the
\* sampled-out span has the measured mark alone.
C14_Witness ==
    \E t \in Threads :
        /\ Done(t) /\ Len(spans[t]) = 1 /\ ~spans[t][1].sampled
        /\ req[t].cfg.analytics_sample_rate # "None"
        /\ req[t].will = Raise([exc |-> "NotFoundError", status_code |-> 404])
        /\ flight[t] = req[t].will
        /\ spans[t][1].metrics["_dd.measured"] = Tag(1)
        /\ spans[t][1].tags["http.status_code"] = NoTag

\* C15: when a sampled span of a GET or POST call has its tags up to the
\* params tag and the serializer cannot dump the body, the serializer's
\* exception reaches the caller, the original method is never invoked for
\* that call, and every span of the call is finished.
C15_SerializationFailure ==
    \A t \in Threads :
        (Done(t) /\ req[t].args[1] \in {"GET", "POST"}
         /\ kwargs_get(req[t].kwargs, "body") = PyDoc("unserializable")
         /\ \E i \in 1..Len(spans[t]) :
               spans[t][i].sampled /\ spans[t][i].tags["elasticsearch.params"].set)
        => /\ flight[t] = Raise([exc |-> "SerializationError"])
           /\ orig[t] = <<>>
           /\ \A i \in 1..Len(spans[t]) : spans[t][i].finished = 1

C15_Witness ==
    \E t \in Threads :
        /\ Done(t) /\ req[t].args[1] = "POST" /\ req[t].will.kind = "return"
        /\ flight[t] = Raise([exc |-> "SerializationError"])
        /\ orig[t] = <<>>
        /\ Len(spans[t]) = 1 /\ spans[t][1].finished = 1
        /\ spans[t][1].tags["elasticsearch.params"].set
        /\ ~spans[t][1].tags["elasticsearch.body"].set

(***************************************************************************)
(* Concurrent callers: both threads call perform_request, each wrapper     *)
(* step of one interleaved with the steps of the other.  The calls are     *)
(* drawn from a few arguments and outcomes that tell the threads apart.    *)
(***************************************************************************)
ConcUrls(tm) ==
    IF tm = ElasticTransport
    THEN {PathPrefix, PathPrefix \o <<"?", "k", "=", "%", "3", "A">>}
    ELSE {PathPrefix, SearchPath}

ConcOutcomes ==
    {Return(TookDict(PyInt(5))), Raise([exc |-> "TransportError"])}

ConcInit ==
    /\ installed \in InstalledChoices
    /\ elastic_transport = "ok"
    /\ datadog_patch = [v \in Variants |-> FALSE]
    /\ wrapped = [tm \in TransportModules |-> <<>>]
    /\ pinned = {}
    /\ calls = <<>>
    /\ workers = Threads
    /\ pc = [t \in Threads |-> "idle"]
    /\ req = [t \in Threads |-> NoCall]
    /\ chain = [t \in Threads |-> <<>>]
    /\ passed = [t \in Threads |-> NothingPassed]
    /\ stack = [t \in Threads |-> <<>>]
    /\ spans = [t \in Threads |-> <<>>]
    /\ orig = [t \in Threads |-> <<>>]
    /\ flight = [t \in Threads |-> NoOutcome]
    /\ purl = <<>>
    /\ pstep = "off"
    /\ pres = NoResult
    /\ penc = <<>>

ConcRequest(t) ==
    /\ t \in workers
    /\ pc[t] = "idle"
    /\ \E tm \in {_determine_transport_module(v) : v \in installed} :
       /\ HasTransport(tm)
       /\ \E pin \in {"disabled", "enabled"}, method \in {"GET", "PUT"},
          url \in ConcUrls(tm), will \in ConcOutcomes :
          /\ req' = [req EXCEPT ![t] =
                        [tm |-> tm, pin |-> pin, args |-> <<method, url>>,
                         kwargs |-> NoKwargs,
                         cfg |-> [trace_query_string |-> FALSE,
                                  analytics_sample_rate |-> "None"],
                         will |-> will]]
          /\ chain' = [chain EXCEPT ![t] = wrapped[tm]]
          /\ passed' = [passed EXCEPT ![t] = CallArgs(<<method, url>>, NoKwargs)]
    /\ pc' = [pc EXCEPT ![t] = "call"]
    /\ UNCHANGED <<patchvars, workers, stack, spans, orig, flight, pvars>>

ConcNext ==
    \/ Patch
    \/ Unpatch
    \/ \E t \in Threads : ConcRequest(t)
    \/ \E t \in Threads : Enter(t)
    \/ \E t \in Threads : Original(t)
    \/ \E t \in Threads : Exit(t)
    \/ \E t \in Threads : Finish(t)

ConcSpec == ConcInit /\ [][ConcNext]_vars

\* C16: with the threads calling concurrently, under every interleaving each
\* call has its own span: the tags of a call's spans come from that call's
\* arguments and result, every span of a finished call is closed, and a
\* finished traced call has produced exactly one span (as many spans as
\* traced calls).
C16_ConcurrentCalls ==
    \A t \in Threads :
        /\ \A i \in 1..Len(spans[t]) :
              LET span == spans[t][i]
              IN  /\ span.tags["elasticsearch.method"].set =>
                        /\ span.tags["elasticsearch.method"] = Tag(req[t].args[1])
                        /\ span.tags["elasticsearch.url"] =
                              Tag(urlparse(req[t].args[2]).path)
                  /\ span.tags["http.status_code"].set =>
                        /\ req[t].will.kind = "raise"
                        /\ span.tags["http.status_code"] =
                              Tag(StatusCodeOf(req[t].will.val))
                  /\ span.metrics["elasticsearch.took"].set =>
                        /\ req[t].will.kind = "return"
                        /\ span.metrics["elasticsearch.took"] =
                              Tag(dict_get(req[t].will.val, "took").n)
        /\ Done(t) => /\ \A i \in 1..Len(spans[t]) : spans[t][i].finished = 1
                      /\ flight[t] = req[t].will
        /\ (Done(t) /\ Intercepted(t)) =>
              Len(spans[t]) = IF req[t].pin = "enabled" THEN 1 ELSE 0

\* C17: when the original call returns a pair (status, data), took is read
\* from data and the status-code tag is status whenever status is truthy,
\* also when the took extraction fails; when it returns anything else, the
\* whole result is the data and the span gets no status-code tag.
C17_PairResult ==
    \A t \in Threads :
        (Done(t) /\ Succeeded(t))
        => \A i \in 1..Len(spans[t]) :
              LET span == spans[t][i]
                  R == req[t].will.val
                  pair == R.py = "tuple" /\ Len(R.elems) = 2
                  data == IF pair THEN R.elems[2] ELSE R
                  took == IF data.py = "dict" THEN dict_get(data, "took") ELSE PyNone
              IN  span.sampled =>
                    /\ span.tags["http.status_code"] =
                          IF pair /\ Truthy(R.elems[1]) THEN Tag(R.elems[1]) ELSE NoTag
                    /\ (took.py = "int" /\ took.n # 0) =>
                          span.metrics["elasticsearch.took"] = Tag(took.n)
                    /\ data.py # "dict" =>
                          span.metrics["elasticsearch.took"] = NoTag

\* The data of the pair has no get: the extraction fails, the status tag is
\* set all the same.
C17_Witness ==
    \E t \in Threads :
        /\ Done(t) /\ Succeeded(t)
        /\ req[t].will.val = PyTuple(<<PyInt(200), PyBool(TRUE)>>)
        /\ Len(spans[t]) = 1 /\ spans[t][1].sampled
        /\ spans[t][1].tags["http.status_code"] = Tag(PyInt(200))
        /\ flight[t] = req[t].will

\* C18: in every call the original method is invoked at most once, and
\* nothing of the call runs towards it again once it has returned or
\* raised; it is invoked exactly once when the wrappers pass the call
\* through (no Pin, disabled Pin), when every span is sampled out, when the
\* caller gets a result, and when the caller gets a transport error.
C18_OriginalAtMostOnce ==
    \A t \in Threads :
        /\ Len(orig[t]) <= 1
        /\ orig[t] # <<>> => pc[t] \in {"ret", "done"}
        /\ (Done(t)
            /\ \/ req[t].pin # "enabled"
               \/ \A i \in 1..Len(spans[t]) : ~spans[t][i].sampled
               \/ flight[t].kind = "return"
               \/ flight[t].kind = "raise" /\ IsTransportError(flight[t].val))
           => Len(orig[t]) = 1

\* A sampled wrapper re-raised the transport error of the one invocation.
C18_Witness ==
    \E t \in Threads :
        /\ Done(t) /\ req[t].pin = "enabled" /\ Len(orig[t]) = 1
        /\ flight[t] = Raise([exc |-> "TransportError"])
        /\ Len(spans[t]) = 1 /\ spans[t][1].sampled /\ spans[t][1].error = 1

\* C19: what a wrapper hands to the function it wraps, and so what the
\* original method receives, is the caller's positional and keyword
\* arguments unchanged on every path; from 8.x on the URL keeps its query
\* string although the URL tag holds the path alone.
C19_ArgumentsUnmodified ==
    \A t \in Threads :
        /\ pc[t] # "idle" =>
              passed[t] = [args |-> req[t].args, kwargs |-> req[t].kwargs]
        /\ \A n \in 1..Len(orig[t]) :
              orig[t][n] = [args |-> req[t].args, kwargs |-> req[t].kwargs]

\* An 8.x call with a query string: the tag has the path, the original
\* method got the whole URL.
C19_Witness ==
    \E t \in Threads :
        /\ Done(t) /\ req[t].args[2] = ExampleUrl
        /\ Len(spans[t]) = 1 /\ spans[t][1].sampled
        /\ spans[t][1].tags["elasticsearch.url"] = Tag(PathPrefix)
        /\ Len(orig[t]) = 1 /\ orig[t][1].args[2] = ExampleUrl

\* C20: after any sequence of patch() and unpatch() calls, over any set of
\* installed modules, perform_request of a transport class is wrapped at
\* most once, and is wrapped exactly when an installed module resolving to
\* that transport has its _datadog_patch flag set; no call has two spans.
\* Two installed modules that resolve to the same fallback transport are
\* included.
C20_WrappedAtMostOnce ==
    /\ \A tm \in TransportModules :
          /\ Len(wrapped[tm]) <= 1
          /\ wrapped[tm] # <<>> <=>
                \E v \in installed :
                   _determine_transport_module(v) = tm /\ datadog_patch[v]
    /\ \A t \in Threads : Len(spans[t]) <= 1


(***************************************************************************)
(* Patching in an environment where the fallback transport module may be   *)
(* missing or incomplete, and may be installed later.                      *)
(***************************************************************************)
FailInit ==
    /\ installed \in InstalledChoices
    /\ elastic_transport \in {"ok", "missing", "bare"}
    /\ datadog_patch = [v \in Variants |-> FALSE]
    /\ wrapped = [tm \in TransportModules |-> <<>>]
    /\ pinned = {}
    /\ calls = <<>>
    /\ workers = {"t1"}
    /\ pc = [t \in Threads |-> "idle"]
    /\ req = [t \in Threads |-> NoCall]
    /\ chain = [t \in Threads |-> <<>>]
    /\ passed = [t \in Threads |-> NothingPassed]
    /\ stack = [t \in Threads |-> <<>>]
    /\ spans = [t \in Threads |-> <<>>]
    /\ orig = [t \in Threads |-> <<>>]
    /\ flight = [t \in Threads |-> NoOutcome]
    /\ purl = <<>>
    /\ pstep = "off"
    /\ pres = NoResult
    /\ penc = <<>>

\* The environment is repaired: a complete elastic_transport becomes
\* importable.
InstallTransport ==
    /\ Quiet
    /\ elastic_transport # "ok"
    /\ elastic_transport' = "ok"
    /\ UNCHANGED <<installed, datadog_patch, wrapped, pinned, calls, callvars,
                   pvars>>

FailNext ==
    \/ Patch
    \/ Unpatch
    \/ InstallTransport
    \/ \E t \in Threads : ConcRequest(t)
    \/ \E t \in Threads : Enter(t)
    \/ \E t \in Threads : Original(t)
    \/ \E t \in Threads : Exit(t)
    \/ \E t \in Threads : Finish(t)

FailSpec == FailInit /\ [][FailNext]_vars

\* C21: a client module's _datadog_patch flag is true only when the wrapper
\* made for that module is around perform_request of its transport class,
\* also after a patch() that failed part-way (the transport module could
\* not be imported, or the wrapping raised).
C21_FlagOnlyWhenWrapped ==
    \A v \in Variants :
        datadog_patch[v] =>
           \E n \in 1..Len(wrapped[_determine_transport_module(v)]) :
              wrapped[_determine_transport_module(v)][n] = v

====
